---- MODULE Spec2Model ----
(***************************************************************************)
(* collectd-prv: the event loop of src/main.rs as a state machine.         *)
(*                                                                         *)
(* One behaviour is one run of event_loop under one configuration (Args).  *)
(* Bytes are their numeric values.  Instants are counted in ticks of       *)
(* 1/TicksPerSec second, so that Duration::as_secs() truncates.            *)
(* The locals of one loop iteration (buf, len, total, now, start, n) and   *)
(* the iteration's share of stdout (out, ranges) are cleared when control  *)
(* returns to the loop head.  A message counts as written once its closing *)
(* quote and line terminator are flushed (line 172).                       *)
(***************************************************************************)
EXTENDS Integers, Sequences, FiniteSets, TLC

\* ---------------------------------------------------------------- bounds
MaxLen == 3        \* content bytes of an input line before its terminator
MaxM == 2          \* largest configured max_event_length
MaxId == 2         \* largest configured max_event_id
MaxLimit == 1      \* largest configured limit
MaxWindow == 1     \* largest configured window (seconds)
MaxClock == 2      \* last tick of the monotonic clock
MaxCount == 3      \* largest value of the window counter explored
MaxMulti == 2      \* multi-chunk lines emitted in one run

\* ------------------------------------------------------------- constants
NUL == 0
LF == 10
CR == 13
DQ == 34
BS == 92
TicksPerSec == 2

\* Bytes of the input stream: NUL, LF, CR, '"', '\', 'a', and the two bytes
\* 0xC3 0xA9 of a two-byte UTF-8 character.
Alphabet == {NUL, LF, CR, DQ, BS, 97, 195, 169}

VARIABLES
  cfg,      \* Args: max_event_length, max_event_id, limit, window
  pc,       \* "read" | "discard" | "emit" | "done" | "failed" | "panic"
  err,      \* "none" | "io" | "time": why event_loop returned Err
  eof,      \* stdin is exhausted (the last line had no terminator)
  buf,      \* the raw line read by read_line
  len,      \* logical length of buf
  total,    \* fragment count of the line
  count,    \* fragment units counted since the window reset
  id,       \* correlation id
  t0,       \* window start (ticks)
  clock,    \* the monotonic clock (ticks)
  now,      \* Unix time (seconds) captured for the line
  start,    \* offset of the next chunk
  n,        \* index of the next fragment (0-based)
  out,      \* messages written to stdout in this iteration
  ranges,   \* byte ranges <<start, end>> cut in this iteration
  multi,    \* number of multi-chunk lines emitted so far
  written   \* messages written to stdout since the window reset

vars == <<cfg, pc, err, eof, buf, len, total, count, id, t0, clock, now,
          start, n, out, ranges, multi, written>>

\* ------------------------------------------------------------ input sets
RECURSIVE SeqsUpTo(_, _)
SeqsUpTo(S, k) ==
  IF k = 0 THEN {<<>>}
  ELSE LET shorter == SeqsUpTo(S, k - 1)
       IN shorter \cup {Append(s, x) : s \in shorter, x \in S}

\* What one read_line call can deliver: bytes up to and including the next
\* LF, or up to end-of-stream; never zero bytes.
Lines ==
  LET contents == SeqsUpTo(Alphabet \ {LF}, MaxLen)
  IN (contents \cup {Append(c, LF) : c \in contents}) \ {<<>>}

Configs ==
  [max_event_length : 0..MaxM, max_event_id : 0..MaxId,
   limit : 0..MaxLimit, window : 0..MaxWindow]

\* ------------------------------------------------------- string helpers
IsCont(b) == b >= 128 /\ b <= 191

\* read_line appends to a String: the bytes must be valid UTF-8.
RECURSIVE IsUtf8(_)
IsUtf8(s) ==
  IF s = <<>> THEN TRUE
  ELSE IF s[1] < 128 THEN IsUtf8(Tail(s))
  ELSE IF s[1] >= 194 /\ s[1] <= 223
       THEN Len(s) >= 2 /\ IsCont(s[2]) /\ IsUtf8(Tail(Tail(s)))
  ELSE FALSE

\* str::is_char_boundary at byte offset i (0-based).
IsCharBoundary(s, i) ==
  \/ i = 0
  \/ i = Len(s)
  \/ i < Len(s) /\ ~IsCont(s[i + 1])

\* buf[a..b]
Slice(s, a, b) == SubSeq(s, a + 1, b)

LogicalLenNoNul(s) ==
  Len(s) - (IF s # <<>> /\ s[Len(s)] = LF THEN 1 ELSE 0)

\* ------------------------------------------------------ the loop's steps
\* lines 107-110
LogicalLen(s) ==
  IF \E i \in 1..Len(s) : s[i] = NUL
  THEN (CHOOSE i \in 1..Len(s) : s[i] = NUL /\ \A j \in 1..(i - 1) : s[j] # NUL) - 1
  ELSE Len(s) - (IF s # <<>> /\ s[Len(s)] = LF THEN 1 ELSE 0)

ExpiredStrict(t1, w0, window) == ((t1 - w0) \div TicksPerSec) > window
\* line 114
Expired(t1, w0, window) == ((t1 - w0) \div TicksPerSec) >= window

TotalChunksOnly(l, m) == l \div m
TotalPlusOne(l, m) == (l \div m) + 1
TotalAtLeastOne(l, m) == IF l = 0 THEN 1 ELSE (l \div m) + (IF l % m = 0 THEN 0 ELSE 1)
\* lines 119-121
Total(l, m) == (l \div m) + (IF l % m = 0 THEN 0 ELSE 1)

ExceededGe(c, limit) == limit > 0 /\ c >= limit
ExceededOffByOne(c, limit) == limit > 0 /\ c > limit + 1
ExceededAnyLimit(c, limit) == c > limit
\* line 125
Exceeded(c, limit) == limit > 0 /\ c > limit

HeaderZeroBased(i, k, tot) == IF tot > 1 THEN <<i, k, tot>> ELSE <<>>
\* lines 147-149
Header(i, k, tot) == IF tot > 1 THEN <<i, k + 1, tot>> ELSE <<>>

ChunkEndUnsplit(l, s, m) == l
\* lines 151-156
ChunkEnd(l, s, m) == IF l - s > m THEN s + m ELSE l

RECURSIVE EscapeBodyNoBreak(_)
EscapeBodyNoBreak(s) ==
  IF s = <<>> THEN <<>>
  ELSE IF s[1] = BS THEN <<BS, BS>> \o EscapeBodyNoBreak(Tail(s))
  ELSE IF s[1] = DQ THEN <<BS, DQ>> \o EscapeBodyNoBreak(Tail(s))
  ELSE IF s[1] = CR \/ s[1] = LF THEN EscapeBodyNoBreak(Tail(s))
  ELSE <<s[1]>> \o EscapeBodyNoBreak(Tail(s))

RECURSIVE EscapeBodyRaw(_)
EscapeBodyRaw(s) ==
  IF s = <<>> THEN <<>>
  ELSE IF s[1] = CR \/ s[1] = LF THEN <<>>
  ELSE <<s[1]>> \o EscapeBodyRaw(Tail(s))

\* lines 157-170
RECURSIVE EscapeBody(_)
EscapeBody(s) ==
  IF s = <<>> THEN <<>>
  ELSE IF s[1] = BS THEN <<BS, BS>> \o EscapeBody(Tail(s))
  ELSE IF s[1] = DQ THEN <<BS, DQ>> \o EscapeBody(Tail(s))
  ELSE IF s[1] = CR \/ s[1] = LF THEN <<>>
  ELSE <<s[1]>> \o EscapeBody(Tail(s))

\* lines 137-171: one protocol message.  The literal
\* PUTNOTIF host=.. severity=okay time=<time> plugin=.. type=.. message="
\* is represented by its time field; host, plugin and type are fixed strings.
Message(time, header, body) ==
  [time |-> time, header |-> header, body |-> body, tail |-> <<DQ, LF>>]

NextIdNoWrap(i, m) == i + 1
\* line 178
NextId(i, m) == (i % m) + 1

\* line 132: whole seconds of the system clock
UnixSecs(t) == t \div TicksPerSec

\* line 99 (and the end of an iteration's scope): the iteration's locals
ClearLocals ==
  /\ buf' = <<>> /\ len' = 0 /\ total' = 0 /\ now' = 0
  /\ start' = 0 /\ n' = 0 /\ out' = <<>> /\ ranges' = <<>>

\* event_loop returns or unwinds: the line buffer and the window state are
\* dropped; what was written to stdout stays written.
DropLocals ==
  /\ buf' = <<>> /\ len' = 0 /\ now' = 0 /\ start' = 0
  /\ count' = 0 /\ t0' = 0

Init ==
  /\ cfg \in Configs
  /\ pc = "read" /\ err = "none" /\ eof = FALSE
  /\ buf = <<>> /\ len = 0 /\ total = 0
  /\ count = 0 /\ id = 1
  /\ clock = 0 /\ t0 = 0
  /\ now = 0 /\ start = 0 /\ n = 0
  /\ out = <<>> /\ ranges = <<>>
  /\ multi = 0 /\ written = 0

\* Time passes while the loop is blocked in a read or a write.
Tick ==
  /\ pc \in {"read", "emit"}
  /\ clock < MaxClock
  /\ clock' = clock + 1
  /\ UNCHANGED <<cfg, pc, err, eof, buf, len, total, count, id, t0, now,
                 start, n, out, ranges, multi, written>>

\* line 102: read_line returns Ok(0)
ReadEOF ==
  /\ pc = "read"
  /\ pc' = "done"
  /\ DropLocals
  /\ UNCHANGED <<cfg, err, eof, total, id, clock, n, out, ranges, multi,
                 written>>

\* line 104: read_line returns Err (a failed read, or bytes that are not
\* valid UTF-8)
ReadErr ==
  /\ pc = "read"
  /\ pc' = "failed"
  /\ err' = "io"
  /\ DropLocals
  /\ UNCHANGED <<cfg, eof, total, id, clock, n, out, ranges, multi, written>>

\* lines 101-123: a line is read and measured, the window is reset if it
\* has elapsed, the line's fragments are counted; line 125: it is dropped;
\* or line 132: it is admitted and stamped.
\* clockOk = FALSE: the system clock is set before the Unix epoch.
ReadLine(line, clockOk) ==
  /\ pc = "read" /\ ~eof
  /\ IsUtf8(line)
  /\ LET l == LogicalLen(line)
         t1 == clock
         expired == Expired(t1, t0, cfg.window)
         c0 == IF expired THEN 0 ELSE count
         w0 == IF expired THEN t1 ELSE t0
     IN IF cfg.max_event_length = 0
        THEN \* line 119: division by zero
             /\ clockOk
             /\ pc' = "panic"
             /\ DropLocals
             /\ UNCHANGED <<eof, total, err>>
        ELSE LET tot == Total(l, cfg.max_event_length)
                 c1 == c0 + tot
             IN /\ c1 <= MaxCount
                /\ tot > 1 => multi < MaxMulti
                /\ IF Exceeded(c1, cfg.limit)
                   THEN /\ clockOk
                        /\ pc' = "discard"
                        /\ buf' = line /\ len' = l /\ total' = tot
                        /\ count' = c1 /\ t0' = w0
                        /\ eof' = (line[Len(line)] # LF)
                        /\ UNCHANGED <<now, start, err>>
                   ELSE IF clockOk
                   THEN /\ pc' = "emit"
                        /\ buf' = line /\ len' = l /\ total' = tot
                        /\ count' = c1 /\ t0' = w0
                        /\ eof' = (line[Len(line)] # LF)
                        /\ now' = UnixSecs(clock)
                        /\ start' = 0
                        /\ UNCHANGED err
                   ELSE \* line 132: duration_since fails
                        /\ pc' = "failed"
                        /\ err' = "time"
                        /\ DropLocals
                        /\ UNCHANGED <<eof, total>>
  /\ written' = IF Expired(clock, t0, cfg.window) THEN 0 ELSE written
  /\ UNCHANGED <<cfg, id, clock, n, out, ranges, multi>>

\* lines 126-129: the line is dropped; back to the loop head.  The verbose
\* diagnostic goes to stderr, which is not part of the state.
Continue ==
  /\ pc = "discard"
  /\ pc' = "read"
  /\ ClearLocals
  /\ UNCHANGED <<cfg, err, eof, count, id, t0, clock, multi, written>>

EmitFragmentRestamped ==
  /\ pc = "emit" /\ n < total
  /\ LET end == ChunkEnd(len, start, cfg.max_event_length)
     IN /\ ranges' = Append(ranges, <<start, end>>)
        /\ IF IsCharBoundary(buf, start) /\ IsCharBoundary(buf, end)
           THEN /\ out' = Append(out, Message(UnixSecs(clock), Header(id, n, total),
                                              EscapeBody(Slice(buf, start, end))))
                /\ start' = end
                /\ n' = n + 1
                /\ written' = written + 1
                /\ UNCHANGED <<pc, buf, len, now, count, t0>>
           ELSE /\ pc' = "panic"
                /\ DropLocals
                /\ UNCHANGED <<out, n, written>>
  /\ UNCHANGED <<cfg, err, eof, total, id, clock, multi>>

\* lines 136-174: one pass of the for loop
EmitFragment ==
  /\ pc = "emit" /\ n < total
  /\ LET end == ChunkEnd(len, start, cfg.max_event_length)
     IN /\ ranges' = Append(ranges, <<start, end>>)
        /\ IF IsCharBoundary(buf, start) /\ IsCharBoundary(buf, end)
           THEN /\ out' = Append(out, Message(now, Header(id, n, total),
                                              EscapeBody(Slice(buf, start, end))))
                /\ start' = end
                /\ n' = n + 1
                /\ written' = written + 1
                /\ UNCHANGED <<pc, buf, len, now, count, t0>>
           ELSE \* line 157: the slice is not on a character boundary
                /\ pc' = "panic"
                /\ DropLocals
                /\ UNCHANGED <<out, n, written>>
  /\ UNCHANGED <<cfg, err, eof, total, id, clock, multi>>

EmitFailSwallowed ==
  /\ pc = "emit" /\ n < total
  /\ err' = "io"
  /\ start' = ChunkEnd(len, start, cfg.max_event_length)
  /\ n' = n + 1
  /\ UNCHANGED <<cfg, pc, eof, buf, len, total, count, id, t0, clock, now,
                 out, ranges, multi, written>>

\* lines 137-172: a write or the flush fails
EmitFail ==
  /\ pc = "emit" /\ n < total
  /\ pc' = "failed"
  /\ err' = "io"
  /\ DropLocals
  /\ UNCHANGED <<cfg, eof, total, id, clock, n, out, ranges, multi, written>>

LoopEndAlways ==
  /\ pc = "emit" /\ n = total
  /\ IF total > 0
     THEN IF cfg.max_event_id = 0
          THEN /\ pc' = "panic"
               /\ DropLocals
               /\ UNCHANGED <<id, multi, total, n, out, ranges>>
          ELSE /\ id' = NextId(id, cfg.max_event_id)
               /\ multi' = multi + 1
               /\ pc' = "read"
               /\ ClearLocals
               /\ UNCHANGED <<count, t0>>
     ELSE /\ pc' = "read"
          /\ ClearLocals
          /\ UNCHANGED <<id, multi, count, t0>>
  /\ UNCHANGED <<cfg, err, eof, clock, written>>

\* lines 177-179, then line 99
LoopEnd ==
  /\ pc = "emit" /\ n = total
  /\ IF total > 1
     THEN IF cfg.max_event_id = 0
          THEN \* line 178: remainder by zero
               /\ pc' = "panic"
               /\ DropLocals
               /\ UNCHANGED <<id, multi, total, n, out, ranges>>
          ELSE /\ id' = NextId(id, cfg.max_event_id)
               /\ multi' = multi + 1
               /\ pc' = "read"
               /\ ClearLocals
               /\ UNCHANGED <<count, t0>>
     ELSE /\ pc' = "read"
          /\ ClearLocals
          /\ UNCHANGED <<id, multi, count, t0>>
  /\ UNCHANGED <<cfg, err, eof, clock, written>>

Next ==
  \/ Tick
  \/ ReadEOF
  \/ ReadErr
  \/ \E line \in Lines, clockOk \in BOOLEAN : ReadLine(line, clockOk)
  \/ Continue
  \/ EmitFragment
  \/ EmitFail
  \/ LoopEnd

Spec == Init /\ [][Next]_vars

\* ================================================================ claims
Min(a, b) == IF a < b THEN a ELSE b

\* ceil(l / m), by its defining inequalities
CeilDiv(l, m) == CHOOSE k \in 0..l : k * m >= l /\ (k = 0 \/ (k - 1) * m < l)

\* The bytes of the i-th chunk (1-based) of the line in buf
Chunk(i) ==
  SubSeq(buf, (i - 1) * cfg.max_event_length + 1,
         Min(i * cfg.max_event_length, len))

\* The window has lasted at least `window` seconds at the instant `clock`
Elapsed == clock - t0 >= cfg.window * TicksPerSec

\* A step that reads a line and takes it through the rate check
Gated == pc = "read" /\ pc' \in {"discard", "emit"}

\* C1: for every logical length L >= 0 and chunk size M > 0 the fragmenter
\* cuts exactly ceil(L/M) ranges; they are contiguous from 0, non-empty and
\* non-overlapping, each of length M except possibly the last, and once the
\* last one is cut they cover exactly [0, L).
C1_Fragmenter ==
  pc = "emit" =>
    LET M == cfg.max_event_length
    IN /\ M > 0
       /\ total = CeilDiv(len, M)
       /\ Len(ranges) = n
       /\ \A i \in 1..Len(ranges) :
            /\ ranges[i][1] = (IF i = 1 THEN 0 ELSE ranges[i - 1][2])
            /\ ranges[i][1] < ranges[i][2]
            /\ ranges[i][2] - ranges[i][1] <= M
            /\ i < total => ranges[i][2] - ranges[i][1] = M
       /\ n = total =>
            /\ Len(ranges) = CeilDiv(len, M)
            /\ IF ranges = <<>> THEN len = 0 ELSE ranges[Len(ranges)][2] = len

\* A line was cut into a full chunk and a shorter last one.
C1_Witness ==
  /\ pc = "emit" /\ n = total /\ total = 2
  /\ len % cfg.max_event_length # 0

\* C2 as stated: after N multi-chunk lines the correlation id equals
\* ((N - 1) mod max_event_id) + 1.
C2_Original ==
  (pc = "read" /\ multi >= 1 /\ cfg.max_event_id > 0) =>
    id = ((multi - 1) % cfg.max_event_id) + 1

\* C2, amended: the id starts at 1; after N multi-chunk lines it equals
\* (N mod max_event_id) + 1, so that the N-th multi-chunk line carries
\* ((N - 1) mod max_event_id) + 1 in its headers.
C2_IdSequence ==
  cfg.max_event_id > 0 =>
    /\ id = (multi % cfg.max_event_id) + 1
    /\ \A i \in 1..Len(out) :
         out[i].header # <<>> =>
           out[i].header[1] = (((multi + 1) - 1) % cfg.max_event_id) + 1

\* The id has wrapped around: two multi-chunk lines with max_event_id = 2.
C2_Witness ==
  /\ cfg.max_event_id = 2 /\ multi = 2 /\ id = 1 /\ pc = "read"

\* C3: with a limit R > 0 and a window of W seconds, a line read while the
\* counter exceeds R and fewer than W whole seconds have passed since the
\* last reset is discarded and writes nothing; a line read W seconds or
\* more after the last reset sets the window start to its arrival instant
\* and the counter to 0 before it is counted; the window start moves at no
\* other time.
C3_RateWindow ==
  [][ /\ (Gated /\ cfg.limit > 0) =>
            /\ (count > cfg.limit /\ ~Elapsed) => (pc' = "discard" /\ out' = <<>>)
            /\ Elapsed => (t0' = clock /\ count' = total')
            /\ ~Elapsed => t0' = t0
      /\ pc = "discard" => (out = <<>> /\ out' = <<>>)
    ]_vars

\* A non-empty line is discarded in a window whose counter already exceeded
\* the limit before the line was counted.
C3_Witness ==
  /\ pc = "discard" /\ cfg.limit > 0
  /\ total >= 1 /\ count - total > cfg.limit

\* C4: every line adds its fragment count to the window counter before the
\* comparison; the line is discarded iff limit > 0 and the counter after the
\* addition exceeds the limit; the units of a discarded line stay counted.
C4_IncrementThenCompare ==
  [][ /\ Gated =>
            /\ count' = (IF Elapsed THEN 0 ELSE count) + total'
            /\ (pc' = "discard") <=> (cfg.limit > 0 /\ count' > cfg.limit)
      /\ pc = "discard" => count' = count
    ]_vars

\* A line is discarded although the counter before it was within the limit.
C4_Witness ==
  /\ pc = "discard" /\ total >= 1
  /\ count > cfg.limit /\ count - total <= cfg.limit /\ count - total >= 1

\* The bytes of s before its first carriage-return or line-feed
BeforeEol(s) ==
  IF \E i \in 1..Len(s) : s[i] \in {CR, LF}
  THEN SubSeq(s, 1, (CHOOSE i \in 1..Len(s) :
                       s[i] \in {CR, LF} /\ \A j \in 1..(i - 1) : s[j] \notin {CR, LF}) - 1)
  ELSE s

\* The backslashes and double-quotes of s, in order, each as its escape pair
RECURSIVE SpecialsOf(_)
SpecialsOf(s) ==
  IF s = <<>> THEN <<>>
  ELSE (IF s[1] \in {BS, DQ} THEN <<<<BS, s[1]>>>> ELSE <<>>) \o SpecialsOf(Tail(s))

\* An emitted body read as the consumer reads it: a backslash takes the
\* next byte with it.  EscapePairs keeps the pairs, Unescaped the content.
RECURSIVE EscapePairs(_)
EscapePairs(b) ==
  IF b = <<>> THEN <<>>
  ELSE IF b[1] = BS /\ Len(b) >= 2
       THEN <<<<b[1], b[2]>>>> \o EscapePairs(Tail(Tail(b)))
  ELSE EscapePairs(Tail(b))

RECURSIVE Unescaped(_)
Unescaped(b) ==
  IF b = <<>> THEN <<>>
  ELSE IF b[1] = BS /\ Len(b) >= 2
       THEN <<b[2]>> \o Unescaped(Tail(Tail(b)))
  ELSE <<b[1]>> \o Unescaped(Tail(b))

\* s with every backslash and double-quote preceded by a backslash
RECURSIVE EscapeAll(_)
EscapeAll(s) ==
  IF s = <<>> THEN <<>>
  ELSE (IF s[1] \in {BS, DQ} THEN <<BS, s[1]>> ELSE <<s[1]>>) \o EscapeAll(Tail(s))

\* C5 as stated: once an accepted line is emitted, every backslash and every
\* double-quote of its content is in the output, escaped.
C5_Original ==
  (pc = "emit" /\ n = total) =>
    \A i \in 1..total : EscapePairs(out[i].body) = SpecialsOf(Chunk(i))

\* C5, amended: in every message written, the escape pairs of the body are
\* exactly the backslashes and double-quotes that the chunk holds before its
\* first carriage-return or line-feed, in order, a backslash as two
\* backslashes and a double-quote as backslash, double-quote; those behind
\* a carriage-return of the chunk are not written at all.
C5_EscapedBeforeEol ==
  pc = "emit" =>
    \A i \in 1..Len(out) :
      EscapePairs(out[i].body) = SpecialsOf(BeforeEol(Chunk(i)))

\* A chunk holding a backslash and a double-quote has been written.
C5_Witness ==
  /\ pc = "emit" /\ n = total
  /\ \E i \in 1..Len(out) :
       LET pairs == EscapePairs(out[i].body)
       IN /\ \E k \in 1..Len(pairs) : pairs[k] = <<BS, BS>>
          /\ \E k \in 1..Len(pairs) : pairs[k] = <<BS, DQ>>

\* C6: the body of every message is the escaped image of the chunk's bytes
\* before the chunk's first carriage-return or line-feed; that byte and the
\* rest of the chunk are not written, and the message is closed by a
\* double-quote and a line-feed all the same.
C6_EolTruncates ==
  pc = "emit" =>
    \A i \in 1..Len(out) :
      /\ out[i].body = EscapeAll(BeforeEol(Chunk(i)))
      /\ \A k \in 1..Len(out[i].body) : out[i].body[k] \notin {CR, LF}
      /\ out[i].tail = <<DQ, LF>>

\* A written chunk holds a carriage-return followed by more bytes.
C6_Witness ==
  /\ pc = "emit"
  /\ \E i \in 1..Len(out) :
       /\ \E k \in 1..Len(Chunk(i)) : Chunk(i)[k] = CR /\ k < Len(Chunk(i))
       /\ Len(out[i].body) < Len(Chunk(i)) - 1

\* C7: a message carries a header @id:seq:total@ iff the line's fragment
\* count exceeds 1; the messages of such a line are written in order with
\* seq = 1, 2, ..., total and all carry the same id and the same total.
C7_Header ==
  /\ \A i \in 1..Len(out) :
       /\ out[i].header # <<>> <=> total > 1
       /\ total > 1 => out[i].header = <<out[1].header[1], i, total>>
  /\ pc = "emit" => (Len(out) = n /\ (total > 1 /\ out # <<>> => out[1].header[1] = id))

\* The three messages of a three-chunk line are written.
C7_Witness ==
  /\ pc = "emit" /\ n = total /\ total = 3 /\ Len(out) = 3

\* C8 as stated: the content portion of a message (between the header and
\* the closing quote) is never longer than max_event_length.
C8_Original ==
  \A i \in 1..Len(out) : Len(out[i].body) <= cfg.max_event_length

\* C8, amended: the content portion of a message carries at most
\* max_event_length bytes of the line, which is its length once unescaped;
\* as written, each backslash and double-quote takes two bytes, so it is at
\* most twice max_event_length long.
C8_ContentBound ==
  \A i \in 1..Len(out) :
    /\ Len(Unescaped(out[i].body)) <= cfg.max_event_length
    /\ Len(out[i].body) <= 2 * cfg.max_event_length

\* A full chunk of backslashes or double-quotes: the body is twice the limit.
C8_Witness ==
  \E i \in 1..Len(out) :
    /\ Len(out[i].body) = 2 * cfg.max_event_length
    /\ Len(Unescaped(out[i].body)) = cfg.max_event_length
    /\ cfg.max_event_length = 2

\* C9: a failed read, write or flush ends the loop at once with Err; nothing
\* is retried, and no further message, of the line being written or of a
\* later line, is ever written.
C9_IoFatal ==
  [][ /\ err' = "io" => (pc' = "failed" /\ out' = out /\ n' = n)
      /\ pc = "failed" => (pc' = "failed" /\ out' = out /\ n' = n)
    ]_vars

\* A write failed between two fragments of a line.
C9_Witness ==
  /\ pc = "failed" /\ err = "io"
  /\ 0 < n /\ n < total /\ Len(out) = n

\* C10: a line of logical length 0 has 0 fragments, adds 0 to the window
\* counter and writes nothing.
C10_EmptyLine ==
  [][ /\ (Gated /\ len' = 0) =>
            /\ total' = 0
            /\ count' = (IF Elapsed THEN 0 ELSE count)
            /\ out' = <<>>
      /\ (pc = "emit" /\ len = 0) => (out' = <<>> /\ pc' \in {"emit", "read"})
    ]_vars

\* A line that starts with NUL and goes on was admitted; nothing is written.
C10_Witness ==
  /\ pc = "emit" /\ len = 0 /\ Len(buf) > 2 /\ buf[1] = NUL
  /\ n = total /\ out = <<>> /\ count > 0

\* C11 as stated: for every configured max_event_id the correlation id
\* lies in [1, max_event_id] (here: whenever a line split into more than
\* one chunk is at hand, so that the id is written), and such a line
\* advances it to (id mod max_event_id) + 1 instead of stopping the loop.
C11_Original ==
  /\ total > 1 => id \in 1..cfg.max_event_id
  /\ ~(pc = "panic" /\ total > 1 /\ n = total)

\* C12: with limit = 0 no line is ever discarded, whatever the counter holds
\* and whenever the lines arrive.
C12_LimitZeroDisabled ==
  cfg.limit = 0 => pc # "discard"

\* With limit = 0 a line is admitted although the window already counts
\* units from earlier lines.
C12_Witness ==
  /\ cfg.limit = 0 /\ pc = "emit"
  /\ total >= 1 /\ count > total /\ written > 0

\* C13 as stated: every byte of a chunk other than backslash, double-quote,
\* carriage-return and line-feed is written unchanged, and a multi-byte
\* character that straddles a chunk boundary is split across two messages
\* while processing goes on: the loop never stops inside a line's fragments
\* unless a write fails.
C13_Original ==
  /\ pc = "emit" =>
       \A i \in 1..Len(out) :
         Unescaped(out[i].body) = BeforeEol(Chunk(i))
  /\ pc = "panic" => n = total

\* C14 as stated (its safety half): an I/O failure is the only cause of
\* abnormal termination.
C14_Original ==
  pc \in {"failed", "panic"} => err = "io"

\* C15: all messages written for one input line carry the same time value,
\* the one captured when the line was accepted (line 132), even when the
\* clock has advanced while the fragments were being written.
C15_OneTimestampPerLine ==
  /\ \A i, j \in 1..Len(out) : out[i].time = out[j].time
  /\ pc = "emit" => \A i \in 1..Len(out) : out[i].time = now

\* two fragments of a line are written and the Unix second has changed
\* since the line's timestamp was captured
C15_Witness ==
  /\ pc = "emit" /\ total >= 2 /\ Len(out) = total
  /\ UnixSecs(clock) > now

\* C16: the correlation id changes only in the step that ends a line split
\* into more than one chunk, after all of its fragments are written;
\* single-chunk lines, empty lines and discarded lines leave it unchanged.
C16_IdFrame ==
  [][id' # id =>
       /\ pc = "emit" /\ pc' = "read"
       /\ total > 1 /\ n = total /\ Len(out) = total]_vars

\* a single-chunk line has been written in full after an earlier
\* multi-chunk line advanced the id
C16_Witness ==
  /\ pc = "emit" /\ total = 1 /\ n = total /\ Len(out) = 1
  /\ id = 2 /\ multi = 1

\* C17: the logical length of a line is the offset of its first NUL byte
\* if it has one, and then nothing at or after the NUL is emitted;
\* otherwise it is the raw length minus 1 if the raw line ends with a
\* line-feed, and the raw length for a final unterminated line.
C17_LogicalLength ==
  pc \in {"emit", "discard"} =>
    /\ IF \E i \in 1..Len(buf) : buf[i] = NUL
       THEN /\ len < Len(buf)
            /\ buf[len + 1] = NUL
            /\ \A j \in 1..len : buf[j] # NUL
       ELSE IF buf # <<>> /\ buf[Len(buf)] = LF
            THEN len = Len(buf) - 1
            ELSE len = Len(buf)
    /\ \A i \in 1..Len(ranges) : ranges[i][2] <= len
    /\ \A i \in 1..Len(out) :
         \A k \in 1..Len(out[i].body) : out[i].body[k] # NUL

\* a line with content before a NUL, content after it and a line-feed at
\* the end has been written in full
C17_Witness ==
  /\ pc = "emit" /\ total >= 1 /\ n = total /\ Len(out) = total
  /\ len >= 1 /\ len + 2 < Len(buf)
  /\ buf[len + 1] = NUL /\ buf[len + 2] # NUL /\ buf[Len(buf)] = LF

\* C18: with a rate limit R > 0, the number of messages written to the
\* output since the last window reset never exceeds R, for any sequence
\* of lines and arrival times.
C18_WindowBudget ==
  cfg.limit > 0 => written <= cfg.limit

\* the budget of the window is used up by written messages and a further
\* line of the same window is being discarded
C18_Witness ==
  /\ cfg.limit > 0 /\ written = cfg.limit
  /\ pc = "discard" /\ total >= 1

\* C19: with a rate limit R > 0, a line whose own fragment count exceeds R
\* is never emitted, not even as the first line of a freshly reset window:
\* it is discarded in full, no message of it is written, and its fragment
\* count is still added to the window counter.
C19_OversizeLineDiscarded ==
  [][ /\ (Gated /\ cfg.limit > 0 /\ CeilDiv(len', cfg.max_event_length) > cfg.limit) =>
           /\ pc' = "discard"
           /\ out' = <<>>
           /\ ranges' = <<>>
           /\ count' = (IF Elapsed THEN 0 ELSE count) + CeilDiv(len', cfg.max_event_length)
      /\ (pc = "discard") =>
           /\ pc' = "read"
           /\ out' = <<>>
           /\ written' = written
           /\ count' = count ]_vars

\* a line with more fragments than the limit is being discarded as the
\* first line of a window that was reset when it arrived
C19_Witness ==
  /\ pc = "discard" /\ cfg.limit > 0
  /\ total > cfg.limit /\ count = total
  /\ clock > 0 /\ t0 = clock /\ written = 0

\* C20 as stated: absent I/O failure, every accepted line with fragment
\* count total yields exactly total messages before anything else happens,
\* whatever its content: once the loop has left the line without an I/O
\* error, all total messages of it are written.
C20_Original ==
  (pc \in {"done", "panic", "failed"} /\ err # "io") => Len(out) = total

====
